---- MODULE Spec2Model ----
(***************************************************************************)
(* Telescope-guidance display controller (oakamil/cypress-display).        *)
(*                                                                         *)
(* The model covers the telemetry client (cedar_client.rs), the main loop  *)
(* with its inline guidance state machine (main.rs) and the two renderers  *)
(* of the repository: the one inlined in main.rs and the one of the        *)
(* renderer.rs module.                                                     *)
(*                                                                         *)
(* The state machine of main.rs is the loop of both builds: "inline" draws   *)
(* with the draw_ui of main.rs, "module" with the draw_ui of renderer.rs.   *)
(* A panic ends the process (pc = "panicked"). The display adapter is kept  *)
(* as its power and brightness; the video recorder is not modelled.         *)
(*                                                                         *)
(* Spec is the display loop with the telemetry client, SpecBright the loop *)
(* beside the web service's brightness handler with the telemetry server   *)
(* offline, SpecBrightFair the same with the loop's thread scheduled.      *)
(* SpecStart is main up to the loop, SpecCanvas the Framebuffer under      *)
(* draw_iter calls. SpecMap, SpecRot and SpecFormat exercise               *)
(* get_state_impl, the rotation adapter's draw_iter and format_offset      *)
(* over their inputs.                                                      *)
(*                                                                         *)
(* Rust's Option<T> is a sequence of length 0 (None) or 1 (Some(x)).       *)
(* The f64 offsets of the wire are fixed-point numbers counted in           *)
(* hundredths, the angles are whole degrees. A Rust String built by         *)
(* format! is a sequence of one-character strings.                          *)
(***************************************************************************)
EXTENDS Integers, Sequences, FiniteSets, TLC

\* ------------------------------------------------------------------ bounds

\* Slew requests the remote server may report are SlewOf(0)..SlewOf(MaxSlew).
MaxSlew == 1

\* The transport accepts at most this many connections during a run.
MaxConn == 2

\* ------------------------------------------------------------------ Option

None == <<>>

Some(x) == <<x>>

IsSome(o) == Len(o) = 1

IsNone(o) == Len(o) = 0

Unwrap(o) == o[1]

UnwrapOr(o, d) == IF IsSome(o) THEN o[1] ELSE d

\* ------------------------------------------------------------ wire values

\* k = 0 is a slew request with every optional field absent; k > 0 carries
\* a positive rotation offset, a negative tilt offset and an angle.
SlewOf(k) ==
    IF k = 0
    THEN [offset_rotation_axis |-> None, offset_tilt_axis |-> None,
          target_angle |-> None]
    ELSE [offset_rotation_axis |-> Some(k), offset_tilt_axis |-> Some(-k),
          target_angle |-> Some(90 * (k - 1))]

SlewRequests == { SlewOf(k) : k \in 0..MaxSlew }

OperatingModes == {"Unspecified", "Setup", "Operate"}

MountTypes == {"Unspecified", "Equatorial", "AltAz"}

OperationSettings == { [operating_mode |-> m] :
                         m \in {None} \cup { Some(x) : x \in OperatingModes } }

Preferences == { [mount_type |-> m] :
                   m \in {None} \cup { Some(x) : x \in MountTypes } }

\* FrameResult, reduced to the fields get_state_impl reads.
Frames ==
    [ has_result : {None, Some(TRUE), Some(FALSE)},
      calibrating : BOOLEAN,
      operation_settings : {None} \cup { Some(s) : s \in OperationSettings },
      preferences : {None} \cup { Some(p) : p \in Preferences },
      slew_request : {None} \cup { Some(s) : s \in SlewRequests },
      plate_solution : {None, Some("PlateSolution")} ]

\* What client.get_frame(request).await yields: Err(status) or Ok(frame).
RpcErr == [ok |-> FALSE]

RpcOk(frame) == [ok |-> TRUE, frame |-> frame]

RpcResults == {RpcErr} \cup { RpcOk(f) : f \in Frames }

\* The frames the main loop is driven with: one without a result, and with
\* a result every combination of calibrating, mode, mount, slew request and
\* plate solution.
NoResultFrame ==
    [ has_result |-> None, calibrating |-> FALSE, operation_settings |-> None,
      preferences |-> None, slew_request |-> None, plate_solution |-> None ]

LoopFrames ==
    {NoResultFrame} \cup
    [ has_result : {Some(TRUE)},
      calibrating : BOOLEAN,
      operation_settings :
          {None, Some([operating_mode |-> Some("Setup")]),
           Some([operating_mode |-> Some("Operate")])},
      preferences : {None, Some([mount_type |-> Some("AltAz")])},
      slew_request : {None} \cup { Some(s) : s \in SlewRequests },
      plate_solution : {None, Some("PlateSolution")} ]

RpcCases == {RpcErr} \cup { RpcOk(f) : f \in LoopFrames }

\* ---------------------------------------------------------------- client

\* Mutant of ServerModeOf: the operating mode is consulted before the
\* calibrating flag.
ServerModeOf_ModeFirst(frame) ==
    LET mode == IF IsSome(frame.operation_settings)
                THEN Unwrap(frame.operation_settings).operating_mode
                ELSE None
    IN  IF mode = Some("Setup") THEN "Setup"
        ELSE IF mode = Some("Operate") THEN "Operating"
        ELSE IF frame.calibrating THEN "Calibrating"
        ELSE "Unknown"

ServerModeOf(frame) ==
    IF frame.calibrating THEN "Calibrating"
    ELSE IF IsSome(frame.operation_settings)
    THEN LET op_settings == Unwrap(frame.operation_settings)
         IN  IF IsSome(op_settings.operating_mode)
             THEN LET mode == Unwrap(op_settings.operating_mode)
                  IN  IF mode = "Setup" THEN "Setup"
                      ELSE IF mode = "Operate" THEN "Operating"
                      ELSE "Unknown"
             ELSE "Unknown"
    ELSE "Unknown"

\* Mutant of IsAltAzOf: an absent mount type counts as alt-az.
IsAltAzOf_AbsentIsAltAz(frame) ==
    IF IsSome(frame.preferences)
    THEN LET prefs == Unwrap(frame.preferences)
         IN  IF IsSome(prefs.mount_type)
             THEN Unwrap(prefs.mount_type) = "AltAz"
             ELSE TRUE
    ELSE FALSE

IsAltAzOf(frame) ==
    IF IsSome(frame.preferences)
    THEN LET prefs == Unwrap(frame.preferences)
         IN  IF IsSome(prefs.mount_type)
             THEN Unwrap(prefs.mount_type) = "AltAz"
             ELSE FALSE
    ELSE FALSE

ServerStateOf(frame) ==
    LET has_slew == IsSome(frame.slew_request)
        slew == Unwrap(frame.slew_request)
    IN  [ server_mode |-> ServerModeOf(frame),
          is_alt_az |-> IsAltAzOf(frame),
          has_slew_request |-> has_slew,
          rotation_target_distance |->
              IF has_slew THEN UnwrapOr(slew.offset_rotation_axis, 0) ELSE 0,
          tilt_target_distance |->
              IF has_slew THEN UnwrapOr(slew.offset_tilt_axis, 0) ELSE 0,
          target_angle |->
              IF has_slew THEN UnwrapOr(slew.target_angle, 0) ELSE 0,
          has_solution |-> IsSome(frame.plate_solution) ]

CedarResponse(status, server_state) ==
    [status |-> status, server_state |-> server_state]

\* Mutant of GetStateImpl: an absent has_result counts as a result.
GetStateImpl_AbsentIsResult(rpc) ==
    IF rpc.ok
    THEN IF ~UnwrapOr(rpc.frame.has_result, TRUE)
         THEN CedarResponse("NoState", None)
         ELSE CedarResponse("Success", Some(ServerStateOf(rpc.frame)))
    ELSE CedarResponse("RpcFailed", None)

\* Mutant of GetStateImpl: a frame without a result is answered Success
\* with no snapshot.
GetStateImpl_Partial(rpc) ==
    IF rpc.ok
    THEN IF ~UnwrapOr(rpc.frame.has_result, FALSE)
         THEN CedarResponse("Success", None)
         ELSE CedarResponse("Success", Some(ServerStateOf(rpc.frame)))
    ELSE CedarResponse("RpcFailed", None)

GetStateImpl(rpc) ==
    IF rpc.ok
    THEN IF ~UnwrapOr(rpc.frame.has_result, FALSE)
         THEN CedarResponse("NoState", None)
         ELSE CedarResponse("Success", Some(ServerStateOf(rpc.frame)))
    ELSE CedarResponse("RpcFailed", None)

\* connect() yields Ok(handle) or Err; the handle is numbered by the
\* connections made so far.
TryToConnect(cl, connect) ==
    IF IsSome(connect) THEN connect ELSE cl

\* The transport calls a get_state makes, as it makes them.
ConnectCall(connect) ==
    << "connect", UnwrapOr(connect, 0), IF IsSome(connect) THEN "Ok" ELSE "Err" >>

GetFrameCall(handle, rpc) ==
    << "get_frame", handle, IF rpc.ok THEN "Ok" ELSE "Err" >>

GetStateResult(cl, r, on) == [client |-> cl, resp |-> r, calls |-> on]

\* Mutant of GetState: an RPC error drops the held connection.
GetState_DropOnError(cl, connect, rpc) ==
    LET tried == IsNone(cl)
        c1 == IF tried THEN TryToConnect(cl, connect) ELSE cl
        on == IF tried THEN << ConnectCall(connect) >> ELSE << >>
    IN  IF IsNone(c1)
        THEN GetStateResult(c1, CedarResponse("Disconnected", None), on)
        ELSE GetStateResult(IF rpc.ok THEN c1 ELSE None, GetStateImpl(rpc),
                            Append(on, GetFrameCall(Unwrap(c1), rpc)))

\* Mutant of GetState: a failed connect is tried again within the call.
GetState_Retry(cl, connect, rpc) ==
    LET tried == IsNone(cl)
        c1 == IF tried THEN TryToConnect(cl, connect) ELSE cl
        on == IF tried
              THEN IF IsNone(c1)
                   THEN << ConnectCall(connect), ConnectCall(connect) >>
                   ELSE << ConnectCall(connect) >>
              ELSE << >>
    IN  IF IsNone(c1)
        THEN GetStateResult(c1, CedarResponse("Disconnected", None), on)
        ELSE GetStateResult(c1, GetStateImpl(rpc),
                            Append(on, GetFrameCall(Unwrap(c1), rpc)))

\* One call of CedarClient::get_state with the transport's answers given:
\* the client afterwards, the response, and the transport calls it made.
GetState(cl, connect, rpc) ==
    LET tried == IsNone(cl)
        c1 == IF tried THEN TryToConnect(cl, connect) ELSE cl
        on == IF tried THEN << ConnectCall(connect) >> ELSE << >>
    IN  IF IsNone(c1)
        THEN GetStateResult(c1, CedarResponse("Disconnected", None), on)
        ELSE GetStateResult(c1, GetStateImpl(rpc),
                            Append(on, GetFrameCall(Unwrap(c1), rpc)))

\* -------------------------------------------------------------- renderer

\* One drawing call made on the target; pts are the points of a primitive
\* the code computes, empty for one drawn at fixed points.
DrawOpAt(op, text, at, style, angle, pts) ==
    [op |-> op, text |-> text, at |-> at, style |-> style, angle |-> angle,
     pts |-> pts]

DrawOp(op, text, at, style, angle) ==
    DrawOpAt(op, text, at, style, angle, << >>)

DigitChars == << "0", "1", "2", "3", "4", "5", "6", "7", "8", "9" >>

RECURSIVE DecimalDigits(_)
\* The decimal digits of a natural number, most significant first.
DecimalDigits(n) ==
    IF n < 10 THEN << DigitChars[n + 1] >>
    ELSE Append(DecimalDigits(n \div 10), DigitChars[(n % 10) + 1])

\* A String as the text handed to Text::new.
RECURSIVE Str(_)
Str(chars) == IF chars = << >> THEN "" ELSE chars[1] \o Str(Tail(chars))

Pow10(k) == IF k = 0 THEN 1 ELSE IF k = 1 THEN 10 ELSE 100

\* Round h / unit to the nearest integer, an exact half to the even one.
RoundHalfEven(h, unit) ==
    LET q == h \div unit
        r == h % unit
    IN  IF 2 * r > unit \/ (2 * r = unit /\ q % 2 = 1) THEN q + 1 ELSE q

\* format!("{:.places}", n) for n >= 0 given in hundredths, places <= 2:
\* the value rounded to `places` decimals, no point when places = 0.
FormatFixed(n, places) ==
    LET scaled == RoundHalfEven(n, Pow10(2 - places))
        int == scaled \div Pow10(places)
        frac == scaled % Pow10(places)
    IN  DecimalDigits(int) \o
        (IF places = 0 THEN << >>
         ELSE IF places = 1 THEN << ".", DigitChars[frac + 1] >>
         ELSE << ".", DigitChars[(frac \div 10) + 1],
                 DigitChars[(frac % 10) + 1] >>)

\* Mutant of FormatOffset: the thresholds are compared with > instead
\* of >=.
FormatOffset_Strict(num) ==
    LET n == IF num < 0 THEN -num ELSE num
    IN  IF n > 10000 THEN FormatFixed(n, 0)
        ELSE IF n > 1000 THEN FormatFixed(n, 1)
        ELSE FormatFixed(n, 2)

\* format_offset; num is in hundredths, so 100.0 is 10000 and 10.0 is 1000.
FormatOffset(num) ==
    LET n == IF num < 0 THEN -num ELSE num
    IN  IF n >= 10000 THEN FormatFixed(n, 0)
        ELSE IF n >= 1000 THEN FormatFixed(n, 1)
        ELSE FormatFixed(n, 2)

OffsetTexts(state) ==
    << DrawOp("text", Str(FormatOffset(state.tilt_target_distance)),
              "top-right", "FG_COLOR", 0),
       DrawOp("text", Str(FormatOffset(state.rotation_target_distance)),
              "bottom-right", "FG_COLOR", 0) >>

CardinalLetters(state, color) ==
    << DrawOp("text", IF state.tilt_target_distance > 0 THEN "N" ELSE "S",
              "top-left", color, 0),
       DrawOp("text", IF state.rotation_target_distance > 0 THEN "E" ELSE "W",
              "bottom-left", color, 0) >>

Triangles(state, tri_style) ==
    << DrawOp("triangle",
              IF state.tilt_target_distance > 0 THEN "up" ELSE "down",
              "top-left", tri_style, 0),
       DrawOp("triangle",
              IF state.rotation_target_distance > 0 THEN "right" ELSE "left",
              "bottom-left", tri_style, 0) >>

\* The arc of diameter 40 with its top left at (44, 44), sweeping 90 degrees
\* from start.
StaleArc(start) ==
    << DrawOp("arc", "sweep 90", "center", "ARC_STYLE", start) >>

\* cos and sin of a whole number of quarter turns, in degrees. The f64
\* results are 1.0 and -1.0 at the peaks and below 1e-15 in size at the
\* zeros, where `as i32` truncates the scaled value to 0.
CosOf(deg) ==
    IF deg % 360 = 0 THEN 1 ELSE IF deg % 360 = 180 THEN -1 ELSE 0

SinOf(deg) ==
    IF deg % 360 = 90 THEN 1 ELSE IF deg % 360 = 270 THEN -1 ELSE 0

\* The points of the arrow about the centre (64, 64) for a display angle:
\* half_len = 20, head_len = 12, head_width = 12.
ArrowPoints(display_angle) ==
    LET half_len == 20
        head_base_offset == 20 - 12
        half_width == 6
        cos_a == CosOf(display_angle)
        sin_a == SinOf(display_angle)
        head_base_center == [x |-> 64 + head_base_offset * cos_a,
                             y |-> 64 - head_base_offset * sin_a]
    IN  [ tip |-> [x |-> 64 + half_len * cos_a, y |-> 64 - half_len * sin_a],
          tail |-> [x |-> 64 - half_len * cos_a, y |-> 64 + half_len * sin_a],
          head_base_center |-> head_base_center,
          corner1 |->
              [x |-> head_base_center.x + half_width * CosOf(display_angle + 90),
               y |-> head_base_center.y - half_width * SinOf(display_angle + 90)],
          corner2 |->
              [x |-> head_base_center.x + half_width * CosOf(display_angle + 270),
               y |-> head_base_center.y - half_width * SinOf(display_angle + 270)] ]

\* The shaft and the head of an arrow at a display angle.
ArrowAt(display_angle) ==
    LET g == ArrowPoints(display_angle)
    IN  << DrawOpAt("line", "shaft", "center", "ARROW_SHAFT_STYLE",
                    display_angle, << g.tail, g.head_base_center >>),
           DrawOpAt("triangle", "head", "center", "ARROW_HEAD_STYLE",
                    display_angle, << g.tip, g.corner1, g.corner2 >>) >>

\* Mutant of Arrow: the wire angle is taken as the display angle.
Arrow_WireAngle(state) == ArrowAt(state.target_angle)

\* The arrow of a snapshot: the display angle is target_angle + 90.
Arrow(state) == ArrowAt(state.target_angle + 90)

\* A draw that ran to its end, and one that panicked after drawing ops.
Drawn(ops) == [panic |-> FALSE, ops |-> ops]

Panicked(ops) == [panic |-> TRUE, ops |-> ops]

\* draw_operating_state of main.rs. stale_angle.unwrap() panics on None;
\* in `is_current || (stale_angle.unwrap() % 72 < 36)` it is evaluated only
\* when is_current is false.
DrawOperatingStateInline(state, stale_angle) ==
    LET is_current == IsSome(stale_angle)
        texts == OffsetTexts(state)
        blink_unwraps == ~state.is_alt_az /\ ~is_current
        show_letters ==
            is_current \/ (IsSome(stale_angle) /\ Unwrap(stale_angle) % 72 < 36)
        marks == IF ~state.is_alt_az
                 THEN IF show_letters THEN CardinalLetters(state, "FG_COLOR")
                      ELSE << >>
                 ELSE Triangles(state, IF is_current THEN "TRIANGLE_STYLE"
                                       ELSE "TRIANGLE_STALE_STYLE")
    IN  IF blink_unwraps /\ IsNone(stale_angle)
        THEN Panicked(texts)
        ELSE IF ~is_current
        THEN IF IsNone(stale_angle)
             THEN Panicked(texts \o marks)
             ELSE Drawn(texts \o marks \o StaleArc(Unwrap(stale_angle)))
        ELSE Drawn(texts \o marks \o Arrow(state))

\* draw_operating_state of renderer.rs.
DrawOperatingState(state, stale_angle) ==
    LET is_current == IsNone(stale_angle)
        texts == OffsetTexts(state)
        marks == IF ~state.is_alt_az
                 THEN CardinalLetters(state, IF is_current THEN "FG_COLOR"
                                             ELSE "STALE_COLOR")
                 ELSE Triangles(state, IF is_current THEN "TRIANGLE_STYLE"
                                       ELSE "TRIANGLE_STALE_STYLE")
    IN  IF ~is_current
        THEN Drawn(texts \o marks \o StaleArc(Unwrap(stale_angle)))
        ELSE Drawn(texts \o marks \o Arrow(state))

\* DrawState
Message(msg) == [kind |-> "Message", msg |-> msg, state |-> None, stale |-> None]

Operating(state, stale) ==
    [kind |-> "Operating", msg |-> "", state |-> Some(state), stale |-> stale]

StatusText(msg) == << DrawOp("text", msg, "center", "FG_COLOR", 0) >>

\* draw_ui of main.rs
DrawUiInline(ds) ==
    IF ds.kind = "Message" THEN Drawn(StatusText(ds.msg))
    ELSE DrawOperatingStateInline(Unwrap(ds.state), ds.stale)

\* draw_ui of renderer.rs
DrawUi(ds) ==
    IF ds.kind = "Message" THEN Drawn(StatusText(ds.msg))
    ELSE DrawOperatingState(Unwrap(ds.state), ds.stale)

\* ------------------------------------------------------ rotation adapter

\* Width and height of the parent target: Size::new(128, 128).
DisplaySize == 128

Rotations == {"Deg0", "Deg90", "Deg180", "Deg270"}

Point(x, y) == [x |-> x, y |-> y]

\* Mutant of RotatedPoint: max_x and max_y are the size, not the size - 1.
RotatedPoint_FromSize(rotation, pt) ==
    LET max_x == DisplaySize
        max_y == DisplaySize
    IN  IF rotation = "Deg0" THEN pt
        ELSE IF rotation = "Deg90" THEN Point(max_x - pt.y, pt.x)
        ELSE IF rotation = "Deg180" THEN Point(max_x - pt.x, max_y - pt.y)
        ELSE Point(pt.y, max_y - pt.x)

\* Mutant of RotatedPoint: Deg270 takes both coordinates from pt.y.
RotatedPoint_Deg270Collapses(rotation, pt) ==
    LET max_x == DisplaySize - 1
        max_y == DisplaySize - 1
    IN  IF rotation = "Deg0" THEN pt
        ELSE IF rotation = "Deg90" THEN Point(max_x - pt.y, pt.x)
        ELSE IF rotation = "Deg180" THEN Point(max_x - pt.x, max_y - pt.y)
        ELSE Point(pt.y, max_y - pt.y)

\* The point RotatedDisplay::draw_iter hands to the parent for a pixel at pt.
RotatedPoint(rotation, pt) ==
    LET max_x == DisplaySize - 1
        max_y == DisplaySize - 1
    IN  IF rotation = "Deg0" THEN pt
        ELSE IF rotation = "Deg90" THEN Point(max_x - pt.y, pt.x)
        ELSE IF rotation = "Deg180" THEN Point(max_x - pt.x, max_y - pt.y)
        ELSE Point(pt.y, max_y - pt.x)

\* -------------------------------------------------- guidance state machine

\* What one pass of the state machine yields: the DrawState and the memory.
Step(ds, ls, sa) == [draw_state |-> ds, last_slew |-> ls, stale_angle |-> sa]

\* Mutant of NextStaleAngle: the step is 10.
NextStaleAngle_Ten(sa) == (sa + 10) % 360

\* Mutant of NextStaleAngle: the phase wraps one step late.
NextStaleAngle_WrapLate(sa) ==
    IF sa + 9 > 360 THEN sa + 9 - 360 ELSE sa + 9

NextStaleAngle(sa) == (sa + 9) % 360

\* Mutant of NonSuccess: a failed poll forgets the last slew.
NonSuccess_Forgets(resp, ls, sa) ==
    Step(Message(resp.status), None, sa)

\* resp.status != Success: the message is the Debug name of the status.
NonSuccess(resp, ls, sa) ==
    Step(Message(resp.status), ls, sa)

\* Mutant of NoSlew: the stale fallback is evaluated before the clearing.
NoSlew_StaleFirst(state, ls, sa) ==
    LET ls1 == IF state.has_solution THEN None ELSE ls
    IN  IF IsSome(ls)
        THEN Step(Operating(Unwrap(ls), Some(sa)), ls1, NextStaleAngle(sa))
        ELSE Step(Message("No Target"), ls1, sa)

\* Mutant of NoSlew: the memory is cleared without a plate solution too.
NoSlew_ClearsAlways(state, ls, sa) ==
    Step(Message("No Target"), None, sa)

\* Mutant of NoSlew: the phase advances in every tick without slew
\* request.
NoSlew_AlwaysAdvances(state, ls, sa) ==
    LET ls1 == IF state.has_solution THEN None ELSE ls
    IN  IF IsSome(ls1)
        THEN Step(Operating(Unwrap(ls1), Some(sa)), ls1, NextStaleAngle(sa))
        ELSE Step(Message("No Target"), ls1, NextStaleAngle(sa))

\* Operating, no slew request.
NoSlew(state, ls, sa) ==
    LET ls1 == IF state.has_solution THEN None ELSE ls
    IN  IF IsSome(ls1)
        THEN Step(Operating(Unwrap(ls1), Some(sa)), ls1, NextStaleAngle(sa))
        ELSE Step(Message("No Target"), ls1, sa)

\* Mutant of LiveSlew: a stored snapshot is not replaced by a newer one.
LiveSlew_KeepsFirst(state, ls, sa) ==
    Step(Operating(state, None), IF IsSome(ls) THEN ls ELSE Some(state), sa)

\* Mutant of LiveSlew: a new live slew restarts the stale animation.
LiveSlew_ResetsPhase(state, ls, sa) ==
    Step(Operating(state, None), Some(state), 0)

\* Operating, slew request present.
LiveSlew(state, ls, sa) ==
    Step(Operating(state, None), Some(state), sa)

\* Mutant of Advance: a Calibrating snapshot forgets the last slew.
Advance_CalibratingForgets(resp, ls, sa) ==
    IF resp.status # "Success" THEN NonSuccess(resp, ls, sa)
    ELSE IF IsSome(resp.server_state)
    THEN LET state == Unwrap(resp.server_state)
         IN  IF state.server_mode = "Operating"
             THEN IF ~state.has_slew_request THEN NoSlew(state, ls, sa)
                  ELSE LiveSlew(state, ls, sa)
             ELSE IF state.server_mode = "Calibrating"
             THEN Step(Message("Calibrating"), None, sa)
             ELSE Step(Message("Setup Mode"), ls, sa)
    ELSE Step(Message("..."), ls, sa)

\* Mutant of Advance: a slew request is taken up in every mode but
\* Calibrating.
Advance_AnyMode(resp, ls, sa) ==
    IF resp.status # "Success" THEN NonSuccess(resp, ls, sa)
    ELSE IF IsSome(resp.server_state)
    THEN LET state == Unwrap(resp.server_state)
         IN  IF state.server_mode = "Calibrating"
             THEN Step(Message("Calibrating"), ls, sa)
             ELSE IF state.has_slew_request THEN LiveSlew(state, ls, sa)
             ELSE IF state.server_mode = "Operating" THEN NoSlew(state, ls, sa)
             ELSE Step(Message("Setup Mode"), ls, sa)
    ELSE Step(Message("..."), ls, sa)

\* The if/else chain of the loop body that computes draw_state.
Advance(resp, ls, sa) ==
    IF resp.status # "Success" THEN NonSuccess(resp, ls, sa)
    ELSE IF IsSome(resp.server_state)
    THEN LET state == Unwrap(resp.server_state)
         IN  IF state.server_mode = "Operating"
             THEN IF ~state.has_slew_request THEN NoSlew(state, ls, sa)
                  ELSE LiveSlew(state, ls, sa)
             ELSE IF state.server_mode = "Calibrating"
             THEN Step(Message("Calibrating"), ls, sa)
             ELSE Step(Message("Setup Mode"), ls, sa)
    ELSE Step(Message("..."), ls, sa)

\* ----------------------------------------------------------------- state

VARIABLES
    build,              \* which draw_ui the binary holds: "inline" | "module"
    pc,                 \* where main is: "head" | "poll" | "sleep" | "done" | "panicked"
    running,            \* the AtomicBool the signal handler clears
    shared_brightness,  \* the AtomicU8 shared with the web service
    current_brightness, \* main's current_brightness
    disp,               \* the display: [on, brightness]
    client,             \* CedarClient.client: None or Some(handle)
    nconn,              \* connections the transport has accepted
    last_slew,          \* main's last_slew
    stale_angle,        \* main's stale_angle
    resp,               \* the response of the iteration in progress
    draw_state,         \* the DrawState of the iteration in progress
    calls,              \* history: the transport calls of the iteration's
                        \* get_state
    slew_before,        \* history: last_slew as the iteration found it
    frame,              \* the wire frame under MapFrame
    stale_ticks,        \* history: stale ticks so far, modulo 360 / 9
    stale_run,          \* history: 0 after a tick not stale, 1 after the
                        \* first stale tick of a run, 2 after a later one
    recent_slew,        \* history: the snapshot the data model's definition
                        \* of last_active_snapshot names
    drawn,              \* what draw_ui did in the iteration in progress
    set_calls,          \* history: the disp.set_brightness calls of the
                        \* iteration in progress
    pixel,              \* the pixel under DrawIter: [rotation, logical, at,
                        \* turns]
    offset,             \* the offset under Format: [num, out]
    canvas,             \* a Framebuffer and the draw_iter call in progress:
                        \* [pixels, todo, dropped, result]; dropped is
                        \* history, the pixels the call has left out
    startup             \* what main was started with and what it made of
                        \* it: [cli_brightness, degrees, rotation]

vars == << build, pc, running, shared_brightness, current_brightness, disp,
           client, nconn, last_slew, stale_angle, resp, draw_state, calls,
           slew_before, frame, stale_ticks, stale_run, recent_slew, drawn,
           set_calls, pixel, offset, canvas, startup >>

\* 0x80, the brightness when neither the command line nor the prefs give one
DefaultBrightness == 128

\* Brightness values the command line, the prefs file and the web UI give.
MaxBrightness == 1

BrightnessVals == {DefaultBrightness} \cup (1..MaxBrightness)

\* No iteration in progress: resp and draw_state are out of scope.
NoResp == CedarResponse("Idle", None)

NoDraw == [kind |-> "Idle", msg |-> "", state |-> None, stale |-> None]

\* No pixel under DrawIter and no offset under Format.
NoPixel ==
    [rotation |-> "Deg0", logical |-> Point(0, 0), at |-> Point(0, 0),
     turns |-> 0]

NoOffset == [num |-> 0, out |-> None]

\* Framebuffer::new(): 128 * 128 cells, all BLACK. The cells are kept as
\* the colour of the cells never written and the cells written since.
FramebufferNew ==
    [len |-> DisplaySize * DisplaySize, fill |-> "BLACK",
     set |-> [i \in {} |-> "BLACK"]]

\* No draw_iter call in progress.
NoCanvas ==
    [pixels |-> FramebufferNew, todo |-> << >>, dropped |-> 0,
     result |-> None]

\* Started without --brightness, rotation 0 in the prefs.
NoStartup == [cli_brightness |-> None, degrees |-> 0, rotation |-> Some("Deg0")]

\* --------------------------------------------------- history (not program)

\* A tick rendered in stale mode: Success, Operating, no slew request, no
\* plate solution, and a remembered slew.
IsStaleTick(r, ls) ==
    /\ r.status = "Success"
    /\ IsSome(r.server_state)
    /\ Unwrap(r.server_state).server_mode = "Operating"
    /\ ~Unwrap(r.server_state).has_slew_request
    /\ ~Unwrap(r.server_state).has_solution
    /\ IsSome(ls)

\* The data model's last_active_snapshot after a poll: the most recent
\* Operating snapshot with a slew request, emptied by a later Operating
\* snapshot with no slew request and a plate solution.
RecentSlew(prev, r) ==
    IF r.status = "Success" /\ IsSome(r.server_state)
       /\ Unwrap(r.server_state).server_mode = "Operating"
    THEN LET s == Unwrap(r.server_state)
         IN  IF s.has_slew_request THEN Some(s)
             ELSE IF s.has_solution THEN None
             ELSE prev
    ELSE prev

\* ------------------------------------------------------------------ main

Init ==
    /\ build \in {"inline", "module"}
    /\ pc = "head"
    /\ running = TRUE
    /\ shared_brightness \in BrightnessVals
    /\ current_brightness = shared_brightness
    /\ disp = [on |-> TRUE, brightness |-> shared_brightness]
    /\ client = None
    /\ nconn = 0
    /\ last_slew = None
    /\ stale_angle = 0
    /\ resp = NoResp
    /\ draw_state = NoDraw
    /\ calls = << >>
    /\ slew_before = None
    /\ frame = None
    /\ stale_ticks = 0
    /\ stale_run = 0
    /\ recent_slew = None
    /\ drawn = None
    /\ set_calls = 0
    /\ pixel = NoPixel
    /\ offset = NoOffset
    /\ canvas = NoCanvas
    /\ startup = NoStartup

\* The signal handler installed for Int and Term.
Signal ==
    /\ pc \in {"head", "poll", "sleep"}
    /\ running
    /\ running' = FALSE
    /\ UNCHANGED << build, pc, shared_brightness, current_brightness, disp,
                    client, nconn, last_slew, stale_angle, resp, draw_state,
                    calls, slew_before, frame, stale_ticks, stale_run, recent_slew,
                    drawn, set_calls, pixel, offset,
                    canvas, startup >>

\* Mutant of SetBrightness: the handler sets the display itself.
SetBrightness_SetsDisplay ==
    /\ pc \in {"head", "poll", "sleep"}
    /\ \E payload \in {None} \cup { Some(b) : b \in BrightnessVals } :
          /\ IsSome(payload)
          /\ shared_brightness' = Unwrap(payload)
          /\ disp' = [disp EXCEPT !.brightness = Unwrap(payload)]
    /\ UNCHANGED << build, pc, running, current_brightness, client,
                    nconn, last_slew, stale_angle, resp, draw_state, calls,
                    slew_before, frame, stale_ticks, stale_run, recent_slew,
                    drawn, set_calls, pixel, offset, canvas, startup >>

\* POST /api/brightness of the web service.
SetBrightness ==
    /\ pc \in {"head", "poll", "sleep"}
    /\ \E payload \in {None} \cup { Some(b) : b \in BrightnessVals } :
          /\ IsSome(payload)
          /\ shared_brightness' = Unwrap(payload)
    /\ UNCHANGED << build, pc, running, current_brightness, disp, client,
                    nconn, last_slew, stale_angle, resp, draw_state, calls,
                    slew_before, frame, stale_ticks, stale_run, recent_slew,
                    drawn, set_calls, pixel, offset,
                    canvas, startup >>

\* Mutant of LoopHead: the brightness is applied in every iteration.
LoopHead_Always ==
    /\ pc = "head"
    /\ running
    /\ disp' = [disp EXCEPT !.brightness = shared_brightness]
    /\ set_calls' = 1
    /\ current_brightness' = shared_brightness
    /\ pc' = "poll"
    /\ UNCHANGED << build, running, shared_brightness, client, nconn,
                    last_slew, stale_angle, resp, draw_state, calls,
                    slew_before, frame, stale_ticks, stale_run, recent_slew,
                    drawn, pixel, offset,
                    canvas, startup >>

\* The loop test succeeding and the brightness check of the iteration.
LoopHead ==
    /\ pc = "head"
    /\ running
    /\ LET target_brightness == shared_brightness
       IN  IF target_brightness # current_brightness
           THEN /\ disp' = [disp EXCEPT !.brightness = target_brightness]
                /\ set_calls' = 1
                /\ current_brightness' = target_brightness
           ELSE /\ set_calls' = 0
                /\ UNCHANGED << disp, current_brightness >>
    /\ pc' = "poll"
    /\ UNCHANGED << build, running, shared_brightness, client, nconn,
                    last_slew, stale_angle, resp, draw_state, calls,
                    slew_before, frame, stale_ticks, stale_run, recent_slew,
                    drawn, pixel, offset,
                    canvas, startup >>

\* get_state, the state machine, and the drawing and flush of the frame,
\* with the RPC answering one of cases.
Poll(cases) ==
    /\ pc = "poll"
    /\ \E connect \in IF IsSome(client) THEN {None}
                      ELSE {None} \cup (IF nconn < MaxConn
                                        THEN {Some(nconn + 1)} ELSE {}),
          rpc \in cases :
          \E g \in {GetState(client, connect, rpc)} :
          \E a \in {Advance(g.resp, last_slew, stale_angle)} :
          LET d == IF build = "inline" THEN DrawUiInline(a.draw_state)
                   ELSE DrawUi(a.draw_state)
              stale == IsStaleTick(g.resp, last_slew)
          IN  /\ client' = g.client
              /\ nconn' = IF IsNone(client) /\ IsSome(g.client)
                          THEN nconn + 1 ELSE nconn
              /\ calls' = g.calls
              /\ slew_before' = last_slew
              /\ resp' = g.resp
              /\ draw_state' = a.draw_state
              /\ last_slew' = a.last_slew
              /\ stale_angle' = a.stale_angle
              /\ drawn' = Some(d)
              /\ pc' = IF d.panic THEN "panicked" ELSE "sleep"
              /\ stale_ticks' = IF stale THEN (stale_ticks + 1) % 40
                                ELSE stale_ticks
              /\ stale_run' = IF ~stale THEN 0
                              ELSE IF stale_run = 0 THEN 1 ELSE 2
              /\ recent_slew' = RecentSlew(recent_slew, g.resp)
    /\ UNCHANGED << build, running, shared_brightness, current_brightness,
                    disp, frame, set_calls, pixel, offset,
                    canvas, startup >>

Tick == Poll(RpcCases)

\* sleep(50 ms) returning: the iteration's locals go out of scope.
Sleep ==
    /\ pc = "sleep"
    /\ pc' = "head"
    /\ resp' = NoResp
    /\ draw_state' = NoDraw
    /\ calls' = << >>
    /\ slew_before' = None
    /\ drawn' = None
    /\ set_calls' = 0
    /\ UNCHANGED << build, running, shared_brightness, current_brightness,
                    disp, client, nconn, last_slew, stale_angle, frame,
                    stale_ticks, stale_run, recent_slew, pixel, offset,
                    canvas, startup >>

\* The loop test failing: reset and power off the display.
Cleanup ==
    /\ pc = "head"
    /\ ~running
    /\ pc' = "done"
    /\ disp' = [disp EXCEPT !.on = FALSE]
    /\ UNCHANGED << build, running, shared_brightness, current_brightness,
                    client, nconn, last_slew, stale_angle, resp, draw_state,
                    calls, slew_before, frame, stale_ticks, stale_run, recent_slew,
                    drawn, set_calls, pixel, offset,
                    canvas, startup >>

\* The display loop with the telemetry client; the web service is idle.
Next == Signal \/ LoopHead \/ Tick \/ Sleep \/ Cleanup

Spec == Init /\ [][Next]_vars

\* ------------------------------------------------ the wire mapping alone

\* get_state_impl applied to a successful transport result carrying any
\* frame of Frames.
InitMap ==
    /\ build = "module"
    /\ pc = "map"
    /\ running = TRUE
    /\ shared_brightness = DefaultBrightness
    /\ current_brightness = DefaultBrightness
    /\ disp = [on |-> TRUE, brightness |-> DefaultBrightness]
    /\ client = Some(1)
    /\ nconn = 1
    /\ last_slew = None
    /\ stale_angle = 0
    /\ resp = NoResp
    /\ draw_state = NoDraw
    /\ calls = << >>
    /\ slew_before = None
    /\ frame \in { Some(f) : f \in Frames }
    /\ stale_ticks = 0
    /\ stale_run = 0
    /\ recent_slew = None
    /\ drawn = None
    /\ set_calls = 0
    /\ pixel = NoPixel
    /\ offset = NoOffset
    /\ canvas = NoCanvas
    /\ startup = NoStartup

\* get_state on the held connection, the request answered with the frame.
MapFrame ==
    /\ pc = "map"
    /\ \E g \in {GetState(client, None, RpcOk(Unwrap(frame)))} :
          /\ resp' = g.resp
          /\ client' = g.client
          /\ calls' = g.calls
    /\ pc' = "mapped"
    /\ UNCHANGED << build, running, shared_brightness, current_brightness,
                    disp, nconn, last_slew, stale_angle, draw_state,
                    slew_before, frame, stale_ticks, stale_run, recent_slew,
                    drawn, set_calls, pixel, offset,
                    canvas, startup >>

NextMap == MapFrame

SpecMap == InitMap /\ [][NextMap]_vars

\* ------------------------------------- the loop with the web service

\* The telemetry server is down or has no result yet.
OfflineCases == {RpcErr, RpcOk(NoResultFrame)}

TickOffline == Poll(OfflineCases)

\* The display loop beside the web service's brightness handler.
NextBright ==
    Signal \/ SetBrightness \/ LoopHead \/ TickOffline \/ Sleep \/ Cleanup

SpecBright == Init /\ [][NextBright]_vars

\* The same with the loop scheduled: the runtime resumes main after each
\* await, so a step of the loop that can be taken is taken.
SpecBrightFair ==
    /\ SpecBright
    /\ WF_vars(LoopHead)
    /\ WF_vars(TickOffline)
    /\ WF_vars(Sleep)

\* main's variables while a pure function is exercised.
MainAtRest ==
    /\ build = "module"
    /\ running = TRUE
    /\ shared_brightness = DefaultBrightness
    /\ current_brightness = DefaultBrightness
    /\ disp = [on |-> TRUE, brightness |-> DefaultBrightness]
    /\ client = None
    /\ nconn = 0
    /\ last_slew = None
    /\ stale_angle = 0
    /\ resp = NoResp
    /\ draw_state = NoDraw
    /\ calls = << >>
    /\ slew_before = None
    /\ frame = None
    /\ stale_ticks = 0
    /\ stale_run = 0
    /\ recent_slew = None
    /\ drawn = None
    /\ set_calls = 0

\* ---------------------------------------------------------- the startup

\* --brightness takes values from 0 to MaxCliBrightness, the rotation of
\* the prefs values from 0 to MaxDegrees.
MaxCliBrightness == 256

MaxDegrees == 360

\* Rotation::from_degrees
FromDegrees(deg) ==
    IF deg = 90 THEN "Deg90"
    ELSE IF deg = 180 THEN "Deg180"
    ELSE IF deg = 270 THEN "Deg270"
    ELSE "Deg0"

\* main entered: the display is off, nothing is connected or drawn.
InitStart ==
    /\ pc = "start"
    /\ build = "module"
    /\ running = TRUE
    /\ shared_brightness = DefaultBrightness
    /\ current_brightness = DefaultBrightness
    /\ disp = [on |-> FALSE, brightness |-> DefaultBrightness]
    /\ client = None
    /\ nconn = 0
    /\ last_slew = None
    /\ stale_angle = 0
    /\ resp = NoResp
    /\ draw_state = NoDraw
    /\ calls = << >>
    /\ slew_before = None
    /\ frame = None
    /\ stale_ticks = 0
    /\ stale_run = 0
    /\ recent_slew = None
    /\ drawn = None
    /\ set_calls = 0
    /\ pixel = NoPixel
    /\ offset = NoOffset
    /\ canvas = NoCanvas
    /\ startup \in
         { [cli_brightness |-> b, degrees |-> d, rotation |-> None] :
             b \in {None} \cup { Some(v) : v \in 0..MaxCliBrightness },
             d \in 0..MaxDegrees }

\* main up to the loop: a --brightness outside 1..=255 returns Err; the
\* rotation is what from_degrees makes of the configured degrees; the
\* display is turned on at the initial brightness.
Startup ==
    /\ pc = "start"
    /\ IF IsSome(startup.cli_brightness)
          /\ Unwrap(startup.cli_brightness) \notin 1..255
       THEN /\ pc' = "refused"
            /\ UNCHANGED << startup, shared_brightness, current_brightness,
                            disp >>
       ELSE \E initial_brightness \in
                   {UnwrapOr(startup.cli_brightness, DefaultBrightness)} :
               /\ pc' = "head"
               /\ startup' =
                    [startup EXCEPT !.rotation = Some(FromDegrees(startup.degrees))]
               /\ shared_brightness' = initial_brightness
               /\ current_brightness' = initial_brightness
               /\ disp' = [on |-> TRUE, brightness |-> initial_brightness]
    /\ UNCHANGED << build, running, client, nconn, last_slew, stale_angle,
                    resp, draw_state, calls, slew_before, frame, stale_ticks,
                    stale_run, recent_slew, drawn, set_calls, pixel, offset,
                    canvas >>

NextStart == Startup

SpecStart == InitStart /\ [][NextStart]_vars

\* ------------------------------------------------------ the pixel canvas

\* A draw_iter call carries at most this many pixels.
MaxPixels == 2

\* Coordinates on and next to the edges of the canvas.
EdgeCoords == {-1, 0, DisplaySize - 1, DisplaySize}

PixelInputs ==
    { [point |-> Point(x, y), color |-> "FG_COLOR"] :
        x \in EdgeCoords, y \in EdgeCoords }

PixelSeqs == UNION { [1..n -> PixelInputs] : n \in 0..MaxPixels }

\* self.pixels[index]
Cell(fb, index) ==
    IF index \in DOMAIN fb.set THEN fb.set[index] ELSE fb.fill

\* self.pixels[index] = color
SetCell(fb, index, color) ==
    [fb EXCEPT !.set = [i \in DOMAIN fb.set \cup {index} |->
                          IF i = index THEN color ELSE fb.set[i]]]

\* Mutant of InBounds: the upper limits are compared with <=.
InBounds_Inclusive(point) ==
    point.x >= 0 /\ point.x <= 128 /\ point.y >= 0 /\ point.y <= 128

\* The bounds check of Framebuffer::draw_iter.
InBounds(point) ==
    point.x >= 0 /\ point.x < 128 /\ point.y >= 0 /\ point.y < 128

InitCanvas ==
    /\ pc = "fb_idle"
    /\ MainAtRest
    /\ pixel = NoPixel
    /\ offset = NoOffset
    /\ canvas = NoCanvas
    /\ startup = NoStartup

\* draw_iter called with the pixels of a drawable.
FbDrawIter ==
    /\ pc = "fb_idle"
    /\ \E pixels \in PixelSeqs :
          canvas' = [canvas EXCEPT !.todo = pixels, !.dropped = 0,
                                   !.result = None]
    /\ pc' = "fb_draw"
    /\ UNCHANGED << build, running, shared_brightness, current_brightness,
                    disp, client, nconn, last_slew, stale_angle, resp,
                    draw_state, calls, slew_before, frame, stale_ticks,
                    stale_run, recent_slew, drawn, set_calls, pixel, offset,
                    startup >>

\* One pass of the for loop of draw_iter; an index past the array panics.
FbPixel ==
    /\ pc = "fb_draw"
    /\ canvas.todo # << >>
    /\ LET point == Head(canvas.todo).point
           color == Head(canvas.todo).color
           index == point.y * 128 + point.x
       IN  IF InBounds(point)
           THEN IF index < canvas.pixels.len
                THEN /\ canvas' = [canvas EXCEPT
                                     !.pixels = SetCell(@, index, color),
                                     !.todo = Tail(@)]
                     /\ pc' = pc
                ELSE /\ canvas' = [canvas EXCEPT !.todo = Tail(@)]
                     /\ pc' = "panicked"
           ELSE /\ canvas' = [canvas EXCEPT
                                !.todo = Tail(@),
                                !.dropped = @ + 1]
                /\ pc' = pc
    /\ UNCHANGED << build, running, shared_brightness, current_brightness,
                    disp, client, nconn, last_slew, stale_angle, resp,
                    draw_state, calls, slew_before, frame, stale_ticks,
                    stale_run, recent_slew, drawn, set_calls, pixel, offset,
                    startup >>

\* The loop of draw_iter ended: Ok(()).
FbReturn ==
    /\ pc = "fb_draw"
    /\ canvas.todo = << >>
    /\ canvas' = [canvas EXCEPT !.result = Some("Ok")]
    /\ pc' = "fb_idle"
    /\ UNCHANGED << build, running, shared_brightness, current_brightness,
                    disp, client, nconn, last_slew, stale_angle, resp,
                    draw_state, calls, slew_before, frame, stale_ticks,
                    stale_run, recent_slew, drawn, set_calls, pixel, offset,
                    startup >>

NextCanvas == FbDrawIter \/ FbPixel \/ FbReturn

SpecCanvas == InitCanvas /\ [][NextCanvas]_vars

\* ---------------------------------------------- the pure functions alone

\* The mapping is applied to its own result at most this many times.
MaxTurns == 4

\* The pixels of the 128 x 128 canvas.
Canvas == { Point(x, y) : x \in 0..(DisplaySize - 1), y \in 0..(DisplaySize - 1) }

InitRot ==
    /\ pc = "rotate"
    /\ MainAtRest
    /\ pixel \in { [rotation |-> r, logical |-> p, at |-> p, turns |-> 0] :
                     r \in Rotations, p \in Canvas }
    /\ offset = NoOffset
    /\ canvas = NoCanvas
    /\ startup = NoStartup

\* One pass of a pixel through RotatedDisplay::draw_iter.
DrawIter ==
    /\ pc = "rotate"
    /\ pixel.turns < MaxTurns
    /\ pixel' = [pixel EXCEPT !.at = RotatedPoint(pixel.rotation, pixel.at),
                              !.turns = @ + 1]
    /\ UNCHANGED << build, pc, running, shared_brightness, current_brightness,
                    disp, client, nconn, last_slew, stale_angle, resp,
                    draw_state, calls, slew_before, frame, stale_ticks,
                    stale_run, recent_slew, drawn, set_calls, offset,
                    canvas, startup >>

NextRot == DrawIter

SpecRot == InitRot /\ [][NextRot]_vars

\* Offsets run from -MaxOffset to MaxOffset hundredths.
MaxOffset == 12340

\* An f64 is rounded by its binary expansion: where the decimal digits
\* dropped are exactly a half and the value is no multiple of 0.25, the
\* direction is not that of the decimal value. Such offsets are left out.
InexactTie(num) ==
    LET n == IF num < 0 THEN -num ELSE num
    IN  n >= 1000 /\ n < 10000 /\ n % 10 = 5 /\ n % 25 # 0

OffsetInputs == { h \in (-MaxOffset)..MaxOffset : ~InexactTie(h) }

InitFormat ==
    /\ pc = "format"
    /\ MainAtRest
    /\ pixel = NoPixel
    /\ offset \in { [num |-> h, out |-> None] : h \in OffsetInputs }
    /\ canvas = NoCanvas
    /\ startup = NoStartup

Format ==
    /\ pc = "format"
    /\ offset' = [offset EXCEPT !.out = Some(FormatOffset(offset.num))]
    /\ pc' = "formatted"
    /\ UNCHANGED << build, running, shared_brightness, current_brightness,
                    disp, client, nconn, last_slew, stale_angle, resp,
                    draw_state, calls, slew_before, frame, stale_ticks,
                    stale_run, recent_slew, drawn, set_calls, pixel,
                    canvas, startup >>

NextFormat == Format

SpecFormat == InitFormat /\ [][NextFormat]_vars

\* ---------------------------------------------------------------- claims

\* A step that is one iteration's poll, state machine and drawing.
TickStep == pc = "poll" /\ pc' \in {"sleep", "panicked"}

\* The poll of the iteration gave a snapshot in Operating mode.
OperatingPoll(r) ==
    /\ r.status = "Success"
    /\ IsSome(r.server_state)
    /\ Unwrap(r.server_state).server_mode = "Operating"

StaleShown == draw_state.kind = "Operating" /\ IsSome(draw_state.stale)

\* C1: a tick whose poll is Success, Operating, without slew request and
\* without plate solution, made while a slew is remembered, emits
\* Operating(remembered slew, Some(p)) with p the phase before the tick and
\* leaves the phase at (p + 9) mod 360; counted from program start the phase
\* is 9 times the number of stale ticks, so that the first stale tick after
\* a slew A shows Operating(A, Some(0)) and the second Operating(A, Some(9)).
C1_StaleTick ==
    /\ [][ (TickStep /\ IsStaleTick(resp', last_slew)) =>
             /\ draw_state' = Operating(Unwrap(last_slew), Some(stale_angle))
             /\ stale_angle' = (stale_angle + 9) % 360 ]_vars
    /\ [](stale_angle = (9 * stale_ticks) % 360)
    /\ []((StaleShown /\ stale_ticks \in {1, 2}) =>
             /\ draw_state.stale = Some(9 * (stale_ticks - 1))
             /\ draw_state.state = recent_slew)

\* The fortieth stale tick shows phase 351 and wraps the phase to 0.
C1_Witness ==
    /\ pc = "sleep"
    /\ IsStaleTick(resp, slew_before)
    /\ draw_state = Operating(Unwrap(slew_before), Some(351))
    /\ stale_angle = 0

\* C2: after a tick whose poll is Success, Operating, without slew request
\* and with a plate solution, the memory is empty and the tick has emitted
\* Message("No Target"), whatever the memory held before.
C2_SolutionClears ==
    (/\ OperatingPoll(resp)
     /\ ~Unwrap(resp.server_state).has_slew_request
     /\ Unwrap(resp.server_state).has_solution)
    => (last_slew = None /\ draw_state = Message("No Target"))

\* Such a tick made while a slew was remembered.
C2_Witness ==
    /\ pc = "sleep"
    /\ OperatingPoll(resp)
    /\ ~Unwrap(resp.server_state).has_slew_request
    /\ Unwrap(resp.server_state).has_solution
    /\ IsSome(slew_before)
    /\ last_slew = None

\* C3: a tick whose poll is Disconnected, RpcFailed or NoState emits a
\* Message and changes neither last_slew nor stale_angle.
C3_FailedPollKeepsMemory ==
    [][ (TickStep /\ resp'.status # "Success") =>
          /\ resp'.status \in {"Disconnected", "RpcFailed", "NoState"}
          /\ draw_state'.kind = "Message"
          /\ last_slew' = last_slew
          /\ stale_angle' = stale_angle ]_vars

\* A failed RPC while a slew is remembered and the phase has advanced.
C3_Witness ==
    /\ pc = "sleep"
    /\ resp.status = "RpcFailed"
    /\ draw_state.kind = "Message"
    /\ IsSome(last_slew)
    /\ stale_angle = 18

\* C4: last_slew is always the most recent Operating snapshot with a slew
\* request, or empty once a later Operating snapshot without slew request
\* and with a plate solution has come; failed polls and snapshots in the
\* other modes do not touch it.
C4_MemoryIsRecentSlew == last_slew = recent_slew

\* A Calibrating snapshot that carries another slew request than the one
\* remembered has left the memory as it was.
C4_Witness ==
    /\ pc = "sleep"
    /\ resp.status = "Success"
    /\ Unwrap(resp.server_state).server_mode = "Calibrating"
    /\ Unwrap(resp.server_state).has_slew_request
    /\ IsSome(last_slew)
    /\ Unwrap(last_slew).rotation_target_distance
         # Unwrap(resp.server_state).rotation_target_distance

\* C5: drawing the DrawState a tick emits never panics.
C5_RenderNeverPanics == pc # "panicked"

\* C6: a tick whose poll is Success, Operating, with a slew request stores
\* the snapshot in last_slew, emits Operating(snapshot, None) and leaves
\* stale_angle as it was.
C6_LiveSlewStored ==
    [][ (/\ TickStep
         /\ OperatingPoll(resp')
         /\ Unwrap(resp'.server_state).has_slew_request) =>
          /\ last_slew' = resp'.server_state
          /\ draw_state' = Operating(Unwrap(resp'.server_state), None)
          /\ stale_angle' = stale_angle ]_vars

\* A live slew replacing a different remembered one, the phase advanced.
C6_Witness ==
    /\ pc = "sleep"
    /\ OperatingPoll(resp)
    /\ Unwrap(resp.server_state).has_slew_request
    /\ IsSome(slew_before)
    /\ slew_before # last_slew
    /\ stale_angle = 9

\* C7: an RPC error is reported as RpcFailed and the connection is kept:
\* once the client holds a connection no step changes it, and every later
\* poll makes exactly one transport call, a request on that handle, and
\* does not answer Disconnected.
C7_ConnectionKept ==
    /\ [][ IsSome(client) =>
             /\ client' = client
             /\ TickStep =>
                  /\ Len(calls') = 1
                  /\ calls'[1][1] = "get_frame"
                  /\ calls'[1][2] = Unwrap(client)
                  /\ resp'.status # "Disconnected" ]_vars
    /\ []((calls # << >> /\ calls[Len(calls)] = GetFrameCall(calls[Len(calls)][2], RpcErr))
             => (resp.status = "RpcFailed" /\ IsSome(client)))

\* An RPC error on a connection made by an earlier poll.
C7_Witness ==
    /\ pc = "sleep"
    /\ resp.status = "RpcFailed"
    /\ calls = << GetFrameCall(1, RpcErr) >>
    /\ client = Some(1)
    /\ IsSome(last_slew)

\* C8: the client starts without connection; a poll made without
\* connection makes exactly one connect attempt, first; if it fails the
\* poll answers Disconnected, makes no request and leaves the client
\* without connection until the next poll; if it succeeds the same poll
\* makes the request on the new handle.
C8_LazyConnect ==
    /\ IsNone(client)
    /\ [][ /\ (TickStep /\ IsNone(client)) =>
                /\ calls' # << >>
                /\ calls'[1][1] = "connect"
                /\ Cardinality({ i \in 1..Len(calls') : calls'[i][1] = "connect" }) = 1
                /\ IF calls'[1][3] = "Err"
                   THEN /\ IsNone(client')
                        /\ resp'.status = "Disconnected"
                        /\ Len(calls') = 1
                   ELSE /\ IsSome(client')
                        /\ Len(calls') = 2
                        /\ calls'[2][1] = "get_frame"
                        /\ calls'[2][2] = Unwrap(client')
           /\ ~TickStep => client' = client ]_vars

\* A failed connect attempt: Disconnected, no request, still no connection.
C8_Witness ==
    /\ pc = "sleep"
    /\ resp.status = "Disconnected"
    /\ calls = << ConnectCall(None) >>
    /\ IsNone(client)

\* C9: for a frame with a result, calibrating gives Calibrating whatever
\* the other fields; otherwise operating mode Operate gives Operating,
\* Setup gives Setup, and an absent mode or absent settings give Unknown.
C9_ModeMapping ==
    (pc = "mapped" /\ UnwrapOr(Unwrap(frame).has_result, FALSE)) =>
        LET f == Unwrap(frame)
            mode == IF IsSome(f.operation_settings)
                    THEN Unwrap(f.operation_settings).operating_mode
                    ELSE None
        IN  /\ resp.status = "Success"
            /\ IsSome(resp.server_state)
            /\ Unwrap(resp.server_state).server_mode =
                 IF f.calibrating THEN "Calibrating"
                 ELSE IF mode = Some("Operate") THEN "Operating"
                 ELSE IF mode = Some("Setup") THEN "Setup"
                 ELSE "Unknown"

\* A calibrating frame whose operating mode is Operate maps to Calibrating.
C9_Witness ==
    /\ pc = "mapped"
    /\ Unwrap(frame).has_result = Some(TRUE)
    /\ Unwrap(frame).calibrating
    /\ Unwrap(frame).operation_settings = Some([operating_mode |-> Some("Operate")])
    /\ IsSome(Unwrap(frame).slew_request)
    /\ Unwrap(resp.server_state).server_mode = "Calibrating"

\* C10: stale_angle changes only in a stale tick, and the first stale tick
\* of a run shows the phase reached by all the stale ticks before it: a
\* later run resumes where the earlier one stopped.
C10_PhaseNeverReset ==
    [][ /\ stale_angle' # stale_angle =>
             (TickStep /\ IsStaleTick(resp', last_slew))
        /\ (TickStep /\ stale_run' = 1) =>
             draw_state'.stale = Some((9 * stale_ticks) % 360) ]_vars

\* A stale run that starts on a phase other than 0, after a live slew that
\* replaced the slew of the earlier run.
C10_Witness ==
    /\ pc = "sleep"
    /\ stale_run = 1
    /\ StaleShown
    /\ draw_state.stale = Some(27)
    /\ stale_angle = 36

\* C11: stale_angle is always an integer from 0 to 359, and so is the
\* phase of every Operating(_, Some(phase)) a tick emits.
C11_PhaseInRange ==
    /\ stale_angle \in 0..359
    /\ StaleShown => Unwrap(draw_state.stale) \in 0..359

\* The stale tick that shows the last phase before the wrap.
C11_Witness ==
    /\ pc = "sleep"
    /\ StaleShown
    /\ Unwrap(draw_state.stale) = 351
    /\ stale_angle \in 0..359

\* The frame of the iteration in progress has a drawing call op at corner at.
HasOp(op, at) ==
    \E i \in 1..Len(Unwrap(drawn).ops) :
        /\ Unwrap(drawn).ops[i].op = op
        /\ Unwrap(drawn).ops[i].at = at

\* The frame has the text at the corner.
HasText(text, at) ==
    \E i \in 1..Len(Unwrap(drawn).ops) :
        /\ Unwrap(drawn).ops[i].op = "text"
        /\ Unwrap(drawn).ops[i].at = at
        /\ Unwrap(drawn).ops[i].text = text

\* draw_ui was called with an Operating state in the iteration in progress.
OperatingDrawn == IsSome(drawn) /\ draw_state.kind = "Operating"

\* C12: drawing Operating(s, staleness) for an equatorial s puts N (tilt
\* offset > 0) or S at the top left and E (rotation offset > 0) or W at the
\* bottom left when staleness is None or Some(phase) with
\* phase mod 72 < 36, and puts no letter there for any other phase.
C12_CardinalLetters ==
    (OperatingDrawn /\ ~Unwrap(draw_state.state).is_alt_az) =>
        LET state == Unwrap(draw_state.state)
            stale == draw_state.stale
        IN  IF IsNone(stale) \/ Unwrap(stale) % 72 < 36
            THEN /\ HasText(IF state.tilt_target_distance > 0 THEN "N"
                            ELSE "S", "top-left")
                 /\ HasText(IF state.rotation_target_distance > 0 THEN "E"
                            ELSE "W", "bottom-left")
            ELSE /\ ~HasOp("text", "top-left")
                 /\ ~HasOp("text", "bottom-left")

\* C13: drawing Operating(s, Some(phase)) draws the arc of 90 degrees
\* about the centre starting at phase and no arrow; drawing
\* Operating(s, None) draws the arrow and no arc.
C13_ArcOrArrow ==
    OperatingDrawn =>
        IF IsSome(draw_state.stale)
        THEN /\ \E i \in 1..Len(Unwrap(drawn).ops) :
                    Unwrap(drawn).ops[i] =
                        DrawOp("arc", "sweep 90", "center", "ARC_STYLE",
                               Unwrap(draw_state.stale))
             /\ ~HasOp("line", "center")
             /\ ~HasOp("triangle", "center")
        ELSE /\ HasOp("line", "center")
             /\ HasOp("triangle", "center")
             /\ ~HasOp("arc", "center")

\* C14: a tick whose poll is Success with a mode other than Operating
\* emits Message("Calibrating") for Calibrating and Message("Setup Mode")
\* for Setup and Unknown, and leaves last_slew and stale_angle as they
\* were, whatever the snapshot's slew request and plate solution.
C14_OtherModesKeepMemory ==
    [][ (/\ TickStep
         /\ resp'.status = "Success"
         /\ IsSome(resp'.server_state)
         /\ Unwrap(resp'.server_state).server_mode # "Operating") =>
          /\ Unwrap(resp'.server_state).server_mode
               \in {"Calibrating", "Setup", "Unknown"}
          /\ draw_state' =
               Message(IF Unwrap(resp'.server_state).server_mode = "Calibrating"
                       THEN "Calibrating" ELSE "Setup Mode")
          /\ last_slew' = last_slew
          /\ stale_angle' = stale_angle ]_vars

\* An Unknown-mode snapshot with a slew request and a plate solution, met
\* with a slew remembered and the phase advanced.
C14_Witness ==
    /\ pc = "sleep"
    /\ resp.status = "Success"
    /\ Unwrap(resp.server_state).server_mode = "Unknown"
    /\ Unwrap(resp.server_state).has_slew_request
    /\ Unwrap(resp.server_state).has_solution
    /\ draw_state = Message("Setup Mode")
    /\ IsSome(last_slew)
    /\ last_slew = slew_before
    /\ stale_angle = 9

\* C15: the response of every poll has one of the four statuses and
\* carries a snapshot exactly when the status is Success; the tick never
\* emits Message("...").
C15_PollNeverPartial ==
    /\ resp # NoResp =>
         /\ resp.status \in {"Success", "Disconnected", "RpcFailed", "NoState"}
         /\ IsSome(resp.server_state) <=> resp.status = "Success"
    /\ draw_state # Message("...")

\* A poll that got a frame without a result: NoState and no snapshot.
C15_Witness ==
    /\ pc = "sleep"
    /\ resp.status = "NoState"
    /\ IsNone(resp.server_state)
    /\ calls # << >>
    /\ calls[Len(calls)] = GetFrameCall(calls[Len(calls)][2], RpcOk(NoResultFrame))
    /\ draw_state = Message("NoState")

\* C16: the snapshot of every emitted Operating(s, _) has has_slew_request
\* true, and last_slew, when present, has has_slew_request true and mode
\* Operating.
C16_SlewAlwaysPresent ==
    /\ draw_state.kind = "Operating" =>
         Unwrap(draw_state.state).has_slew_request
    /\ IsSome(last_slew) =>
         /\ Unwrap(last_slew).has_slew_request
         /\ Unwrap(last_slew).server_mode = "Operating"

\* A stale tick: the snapshot polled has no slew request, the one handed
\* to the renderer has.
C16_Witness ==
    /\ pc = "sleep"
    /\ OperatingPoll(resp)
    /\ ~Unwrap(resp.server_state).has_slew_request
    /\ StaleShown
    /\ Unwrap(draw_state.state).has_slew_request
    /\ draw_state.state = last_slew

\* C17: under Deg90 on the 128 x 128 target a pixel at logical (x, y) is
\* handed to the parent at (127 - y, x), the one at (0, 0) at (127, 0), and
\* four passes through the Deg90 mapping give back the logical point.
C17_Rotate90 ==
    pixel.rotation = "Deg90" =>
        /\ pixel.turns = 1 =>
             /\ pixel.at = Point(127 - pixel.logical.y, pixel.logical.x)
             /\ pixel.logical = Point(0, 0) => pixel.at = Point(127, 0)
        /\ pixel.turns = 4 => pixel.at = pixel.logical

\* The origin after one pass through the Deg90 mapping.
C17_Witness ==
    /\ pc = "rotate"
    /\ pixel.rotation = "Deg90"
    /\ pixel.logical = Point(0, 0)
    /\ pixel.turns = 1
    /\ pixel.at = Point(127, 0)

\* C18: the brightness check of an iteration calls disp.set_brightness
\* exactly when the shared value it reads differs from current_brightness,
\* and leaves current_brightness and the display at the value read.
C18_BrightnessOnChange ==
    /\ [][ (pc = "head" /\ pc' = "poll") =>
             /\ set_calls' = (IF shared_brightness # current_brightness
                              THEN 1 ELSE 0)
             /\ current_brightness' = shared_brightness
             /\ disp'.brightness = shared_brightness ]_vars
    /\ [](disp.brightness = current_brightness)

\* An iteration that applied a value the web service had set.
C18_Witness ==
    /\ pc = "poll"
    /\ set_calls = 1
    /\ current_brightness = shared_brightness
    /\ disp.brightness = shared_brightness

\* C19: once running is false the iteration in progress goes on from the
\* poll to the sleep and from the sleep to the loop test, the loop test
\* starts no iteration but resets and powers off the display, and the
\* loop is left from the loop test only.
C19_SignalFinishesCycle ==
    [][ /\ ~running =>
             /\ (pc = "poll" /\ pc' # pc) => pc' = "sleep"
             /\ (pc = "sleep" /\ pc' # pc) => pc' = "head"
             /\ (pc = "head" /\ pc' # pc) => (pc' = "done" /\ ~disp'.on)
        /\ (pc' = "done" /\ pc # "done") => (pc = "head" /\ ~running) ]_vars

\* The digits of a text without its point, read as a number.
RECURSIVE DigitsValue(_)
DigitsValue(chars) ==
    IF chars = << >> THEN 0
    ELSE 10 * DigitsValue(SubSeq(chars, 1, Len(chars) - 1))
         + (CHOOSE d \in 0..9 : DigitChars[d + 1] = chars[Len(chars)])

IsDigit(c) == \E d \in 1..10 : DigitChars[d] = c

\* C20: format_offset(v), with n = |v|, is made of digits and at most one
\* point, has no digit after the point when n >= 100, one when
\* 10 <= n < 100 and two otherwise, and reads as n rounded to that many
\* places; 5.4 gives "5.40", 12.34 "12.3", 123.4 "123" and -7.0 "7.00".
C20_FormatOffset ==
    pc = "formatted" =>
        LET v == offset.num
            n == IF v < 0 THEN -v ELSE v
            s == Unwrap(offset.out)
            places == IF n >= 10000 THEN 0 ELSE IF n >= 1000 THEN 1 ELSE 2
            points == { i \in 1..Len(s) : s[i] = "." }
            digits == SelectSeq(s, IsDigit)
        IN  /\ \A i \in 1..Len(s) : IsDigit(s[i]) \/ s[i] = "."
            /\ IF places = 0 THEN points = {}
               ELSE points = {Len(s) - places} /\ Len(s) - places > 1
            /\ Len(digits) = Len(s) - Cardinality(points)
            /\ LET shown == DigitsValue(digits) * Pow10(2 - places)
               IN  2 * (IF shown < n THEN n - shown ELSE shown - n)
                     <= Pow10(2 - places)
            /\ v = 540 => Str(s) = "5.40"
            /\ v = 1234 => Str(s) = "12.3"
            /\ v = 12340 => Str(s) = "123"
            /\ v = -700 => Str(s) = "7.00"

\* 12.34 formatted with one decimal.
C20_Witness ==
    /\ pc = "formatted"
    /\ offset.num = 1234
    /\ Str(Unwrap(offset.out)) = "12.3"

\* C22: a request answered with a frame whose has_result is false or
\* absent gives NoState and no snapshot, whatever the frame's other
\* fields, and the client keeps the connection it made the request on.
C22_NoResultIsNoState ==
    (pc = "mapped" /\ ~UnwrapOr(Unwrap(frame).has_result, FALSE)) =>
        /\ resp = CedarResponse("NoState", None)
        /\ calls = << GetFrameCall(1, RpcOk(Unwrap(frame))) >>
        /\ client = Some(1)

\* A frame with has_result absent that is calibrating and carries
\* settings, a slew request and a plate solution.
C22_Witness ==
    /\ pc = "mapped"
    /\ Unwrap(frame).has_result = None
    /\ Unwrap(frame).calibrating
    /\ IsSome(Unwrap(frame).operation_settings)
    /\ IsSome(Unwrap(frame).slew_request)
    /\ IsSome(Unwrap(frame).plate_solution)
    /\ resp.status = "NoState"
    /\ client = Some(1)

\* C23: a tick whose poll is Success, Operating, without slew request and
\* without plate solution, made with nothing remembered, emits
\* Message("No Target"), leaves the memory empty and the phase as it was.
C23_NoTarget ==
    [][ (/\ TickStep
         /\ OperatingPoll(resp')
         /\ ~Unwrap(resp'.server_state).has_slew_request
         /\ ~Unwrap(resp'.server_state).has_solution
         /\ IsNone(last_slew)) =>
          /\ draw_state' = Message("No Target")
          /\ last_slew' = None
          /\ stale_angle' = stale_angle ]_vars

\* Such a tick after an earlier stale run has left the phase at 9.
C23_Witness ==
    /\ pc = "sleep"
    /\ OperatingPoll(resp)
    /\ ~Unwrap(resp.server_state).has_slew_request
    /\ ~Unwrap(resp.server_state).has_solution
    /\ IsNone(slew_before)
    /\ IsNone(last_slew)
    /\ draw_state = Message("No Target")
    /\ stale_angle = 9

\* The frame has the triangle of the direction and style at the corner.
HasTriangle(dir, at, style) ==
    \E i \in 1..Len(Unwrap(drawn).ops) :
        Unwrap(drawn).ops[i] = DrawOp("triangle", dir, at, style, 0)

\* C24: drawing Operating(s, staleness) for an alt-az s draws a triangle
\* at the top left, up for a tilt offset > 0 and down otherwise, and one at
\* the bottom left, right for a rotation offset > 0 and left otherwise,
\* both filled when staleness is None and both in outline when it is
\* Some(phase).
C24_Triangles ==
    (OperatingDrawn /\ Unwrap(draw_state.state).is_alt_az) =>
        LET state == Unwrap(draw_state.state)
            style == IF IsNone(draw_state.stale) THEN "TRIANGLE_STYLE"
                     ELSE "TRIANGLE_STALE_STYLE"
        IN  /\ HasTriangle(IF state.tilt_target_distance > 0 THEN "up"
                           ELSE "down", "top-left", style)
            /\ HasTriangle(IF state.rotation_target_distance > 0 THEN "right"
                           ELSE "left", "bottom-left", style)

\* C25: for a frame with a result, is_alt_az is true exactly when the
\* mount type is present and AltAz; has_slew_request is true exactly when
\* the slew request is present, and without it both offsets and the angle
\* are 0; has_solution is true exactly when the plate solution is present.
C25_FieldDefaults ==
    (pc = "mapped" /\ UnwrapOr(Unwrap(frame).has_result, FALSE)) =>
        LET f == Unwrap(frame)
            state == Unwrap(resp.server_state)
            mount == IF IsSome(f.preferences)
                     THEN Unwrap(f.preferences).mount_type ELSE None
        IN  /\ resp.status = "Success"
            /\ state.is_alt_az <=> mount = Some("AltAz")
            /\ state.has_slew_request <=> IsSome(f.slew_request)
            /\ IsNone(f.slew_request) =>
                 /\ state.rotation_target_distance = 0
                 /\ state.tilt_target_distance = 0
                 /\ state.target_angle = 0
            /\ state.has_solution <=> IsSome(f.plate_solution)

\* A frame with preferences but no mount type, no slew request and no
\* plate solution.
C25_Witness ==
    /\ pc = "mapped"
    /\ Unwrap(frame).has_result = Some(TRUE)
    /\ Unwrap(frame).preferences = Some([mount_type |-> None])
    /\ IsNone(Unwrap(frame).slew_request)
    /\ IsNone(Unwrap(frame).plate_solution)
    /\ ~Unwrap(resp.server_state).is_alt_az
    /\ ~Unwrap(resp.server_state).has_slew_request
    /\ ~Unwrap(resp.server_state).has_solution

\* The rotation that undoes a rotation.
InverseRotation(rotation) ==
    IF rotation = "Deg90" THEN "Deg270"
    ELSE IF rotation = "Deg270" THEN "Deg90"
    ELSE rotation

\* C29: under each rotation a pixel of the canvas is handed to the parent
\* at a pixel of the canvas, and the mapping of the inverse rotation
\* (Deg180 for Deg180, Deg270 for Deg90, Deg90 for Deg270) undoes it on
\* either side: the mapping is one-to-one and onto the canvas.
C29_RotationBijection ==
    pixel.turns = 1 =>
        LET back == InverseRotation(pixel.rotation)
        IN  /\ pixel.at \in Canvas
            /\ RotatedPoint(back, pixel.at) = pixel.logical
            /\ RotatedPoint(back, pixel.logical) \in Canvas
            /\ RotatedPoint(pixel.rotation,
                            RotatedPoint(back, pixel.logical)) = pixel.logical

\* A pixel off both diagonals after one pass through the Deg270 mapping.
C29_Witness ==
    /\ pc = "rotate"
    /\ pixel.rotation = "Deg270"
    /\ pixel.logical = Point(5, 100)
    /\ pixel.turns = 1
    /\ pixel.at = Point(100, 122)

\* The drawing calls of the iteration in progress that draw the part of
\* the arrow.
ArrowOps(part) ==
    { i \in 1..Len(Unwrap(drawn).ops) :
        /\ Unwrap(drawn).ops[i].at = "center"
        /\ Unwrap(drawn).ops[i].text = part }

C21_BoundsCheckedWrite ==
    /\ [][ (pc = "fb_draw" /\ canvas.todo # << >>) =>
             LET p == Head(canvas.todo).point
                 index == p.y * 128 + p.x
                 inside == p.x \in 0..127 /\ p.y \in 0..127
                 cells == DOMAIN canvas.pixels.set \cup
                          DOMAIN canvas'.pixels.set \cup
                          (IF inside THEN {index} ELSE {})
             IN  /\ canvas'.pixels.fill = canvas.pixels.fill
                 /\ \A i \in cells :
                      Cell(canvas'.pixels, i) =
                        IF inside /\ i = index THEN Head(canvas.todo).color
                        ELSE Cell(canvas.pixels, i)
                 /\ pc' = "fb_draw" ]_vars
    /\ [](canvas.pixels.len = 128 * 128)
    /\ [](pc # "panicked")
    /\ []((pc = "fb_idle" /\ canvas # NoCanvas) => canvas.result = Some("Ok"))

\* A call with a pixel off the canvas and the pixel of the last cell has
\* returned Ok with that one cell written.
C21_Witness ==
    /\ pc = "fb_idle"
    /\ canvas.dropped = 1
    /\ canvas.result = Some("Ok")
    /\ DOMAIN canvas.pixels.set = {16383}
    /\ Cell(canvas.pixels, 16383) = "FG_COLOR"
    /\ Cell(canvas.pixels, 128) = "BLACK"

\* C26: main goes on to the loop only if the --brightness given lies in
\* 1..255 and the configured rotation is one of 0, 90, 180, 270, and ends
\* with an error otherwise.
C26_InvalidConfigRefused ==
    pc # "start" =>
        (pc = "refused" <=>
            \/ /\ IsSome(startup.cli_brightness)
               /\ Unwrap(startup.cli_brightness) \notin 1..255
            \/ startup.degrees \notin {0, 90, 180, 270})

\* C27: a step that stores a brightness is no step of the loop and leaves
\* the display alone; a step of the loop never changes the shared value;
\* every brightness check leaves the display at the shared value; and
\* with the loop scheduled a value stored is on the display later, unless
\* the loop was told to stop or another value was stored first.
C27_BrightnessWithinACycle ==
    /\ [][ /\ shared_brightness' # shared_brightness =>
                (pc' = pc /\ disp' = disp
                 /\ current_brightness' = current_brightness)
           /\ (pc' # pc \/ disp' # disp) =>
                shared_brightness' = shared_brightness
           /\ (pc = "head" /\ pc' = "poll") =>
                disp'.brightness = shared_brightness' ]_vars
    /\ \A b \in BrightnessVals :
          (shared_brightness = b) ~>
              (disp.brightness = b \/ shared_brightness # b \/ ~running)

\* A value stored while the loop sleeps: not yet on the display.
C27_Witness ==
    /\ pc = "sleep"
    /\ running
    /\ shared_brightness # current_brightness
    /\ disp.brightness = current_brightness
    /\ set_calls = 0

====
